---- MODULE Spec2Model ----
(***************************************************************************)
(* Model of sots-event-inspect: the Value tree (yaml.rs), the typed        *)
(* accessor field_get!, the domain decoders of data.rs and the two-phase   *)
(* loader of interface.rs (App::new, build_npc_maps, parse_event_data).    *)
(*                                                                         *)
(* Text (Rust String) is a sequence of one-character strings, so that the  *)
(* character positions the code samples are explicit.                      *)
(***************************************************************************)
EXTENDS Integers, Sequences, FiniteSets, TLC

VARIABLES
    d_op, d_arg, d_ret,      \* the decoder last applied, its input and its result
    pc,                      \* where App::new stands: "phase1", "phase2", "done", "failed"
    event_map, npc_map, npc_guids, npc_events,   \* the fields of App
    collected,               \* the map `collect()` is building in parse_event_data
    n_pairs, n_events,       \* sidecar/asset pairs scanned, event records consumed
    load_err,                \* the error App::new returns, if any
    last_in,                 \* the pair or event record consumed by the last step
    dup_seen,                \* a scanned NPC pair repeated a recorded guid or NPC id
    app,                     \* the App that App::new handed to its caller, if any
    state,                   \* App.state, the AppState of the menu loop
    run_pc                   \* where App::run stands: "idle", "check", "body", "ok", "err",
                             \* "unreachable"

vars == <<d_op, d_arg, d_ret, pc, event_map, npc_map, npc_guids, npc_events,
          collected, n_pairs, n_events, load_err, last_in, dup_seen, app, state, run_pc>>

decode_vars == <<d_op, d_arg, d_ret>>

load_vars == <<pc, event_map, npc_map, npc_guids, npc_events,
               collected, n_pairs, n_events, load_err, last_in, dup_seen, app, state, run_pc>>

menu_vars == <<state, run_pc>>

----------------------------------------------------------------------------
(* Bounds of the model *)

\* unsigned codes 0..MaxUint are fed to the Effect and Connector decoders
MaxUint == 130

\* longest `sequence` text, in characters
MaxSeqLen == 18

\* most sidecar/asset pairs scanned by phase 1
MaxPairs == 3

\* most event records in the events document
MaxEvents == 3

\* longest `cards` list fed to the Deck decoder
MaxCards == 3

----------------------------------------------------------------------------
(* Result and Option *)

Ok(v) == [ok |-> TRUE, val |-> v]

Err(e) == [ok |-> FALSE, err |-> e]

None == [some |-> FALSE]

Some(v) == [some |-> TRUE, v |-> v]

----------------------------------------------------------------------------
(* yaml.rs: the Value tree.  Each variant keeps its payload under its own  *)
(* record field.                                                           *)

StructF(m) == [tag |-> "Struct", m |-> m]

ListF(l) == [tag |-> "List", l |-> l]

BoolF(b) == [tag |-> "Bool", b |-> b]

UintF(u) == [tag |-> "Uint", u |-> u]

IntF(i) == [tag |-> "Int", i |-> i]

FloatF(f) == [tag |-> "Float", f |-> f]

NullF == [tag |-> "Null"]

StrF(s) == [tag |-> "Str", s |-> s]

\* the payload a `let Field::T(var) = field` pattern binds
Payload(f) ==
    CASE f.tag = "Struct" -> f.m
      [] f.tag = "List" -> f.l
      [] f.tag = "Bool" -> f.b
      [] f.tag = "Uint" -> f.u
      [] f.tag = "Int" -> f.i
      [] f.tag = "Float" -> f.f
      [] f.tag = "Str" -> f.s
      [] OTHER -> <<>>

\* the variants field_value_type! accepts as the expected type of a call site
FieldTypes == {"Struct", "List", "Bool", "Uint", "Int", "Float", "Str"}

EmptyMap == <<>>

HasKey(m, k) == k \in DOMAIN m

\* YamlError built by field_get_body!: the optional "event <id>: " prefix,
\* the key, and for a variant mismatch the expected type
MissingKeyErr(event_id, key) == [msg |-> "Field didn't contain key", key |-> key, event |-> event_id]

WrongTypeErr(event_id, key, t) ==
    [msg |-> "Field entry is not of type", key |-> key, type |-> t, event |-> event_id]

\* faulty variant: an Int or a Bool is read where a Uint is expected
field_get_coerce(event_id, map, key, t) ==
    IF ~HasKey(map, key) THEN Err(MissingKeyErr(event_id, key))
    ELSE IF map[key].tag = t THEN Ok(Payload(map[key]))
    ELSE IF t = "Uint" /\ map[key].tag = "Int" THEN Ok(map[key].i)
    ELSE IF t = "Uint" /\ map[key].tag = "Bool" THEN Ok(IF map[key].b THEN 1 ELSE 0)
    ELSE Err(WrongTypeErr(event_id, key, t))

field_get(event_id, map, key, t) ==
    IF ~HasKey(map, key) THEN Err(MissingKeyErr(event_id, key))
    ELSE IF map[key].tag # t THEN Err(WrongTypeErr(event_id, key, t))
    ELSE Ok(Payload(map[key]))

\* the `let Field::T(x) = value else { return Err(..) }` head of every
\* TryFrom<&Field> implementation
NotVariantErr(t) == [msg |-> "Field is not a", type |-> t]

----------------------------------------------------------------------------
(* data.rs: Effect *)

\* faulty variant: the codes are matched from 0 instead of 1
Effect_match_shifted(id) ==
    CASE id = 0 -> "Chain"
      [] id = 1 -> "Inherit"
      [] id = 2 -> "Duplicate"
      [] id = 3 -> "Insert"
      [] id = 4 -> "Collapse"
      [] id = 5 -> "Redraw"
      [] id = 6 -> "ViewHand"
      [] id = 7 -> "Choose"
      [] id = 8 -> "Listen"
      [] OTHER -> "None"

Effect_match(id) ==
    CASE id = 1 -> "Chain"
      [] id = 2 -> "Inherit"
      [] id = 3 -> "Duplicate"
      [] id = 4 -> "Insert"
      [] id = 5 -> "Collapse"
      [] id = 6 -> "Redraw"
      [] id = 7 -> "ViewHand"
      [] id = 8 -> "Choose"
      [] id = 9 -> "Listen"
      [] OTHER -> "None"

Effect_try_from(value) ==
    IF value.tag # "Uint" THEN Err(NotVariantErr("Uint"))
    ELSE Ok(Effect_match(value.u))

----------------------------------------------------------------------------
(* data.rs: ConnectType and Connector *)

ConnectTypes == {"Circle", "Triangle", "Square", "Diamond", "Dog", "Spiral"}

\* derive(PartialOrd, Ord) on the enum: the rank is the declaration index
ConnectType_ord(t) ==
    CASE t = "Circle" -> 0
      [] t = "Triangle" -> 1
      [] t = "Square" -> 2
      [] t = "Diamond" -> 3
      [] t = "Dog" -> 4
      [] t = "Spiral" -> 5

\* u64 `&`
RECURSIVE BitAnd(_, _)
BitAnd(a, b) ==
    IF a = 0 \/ b = 0 THEN 0
    ELSE (IF a % 2 = 1 /\ b % 2 = 1 THEN 1 ELSE 0) + 2 * BitAnd(a \div 2, b \div 2)

\* BTreeSet<ConnectType> as the sequence its iterator yields
BTreeSet_new == <<>>

BTreeSet_contains(set, x) == \E i \in 1..Len(set) : set[i] = x

\* faulty variant: members are kept in insertion order
BTreeSet_push(set, x) == IF BTreeSet_contains(set, x) THEN set ELSE Append(set, x)

BTreeSet_insert(set, x) ==
    IF BTreeSet_contains(set, x) THEN set
    ELSE LET below == SelectSeq(set, LAMBDA y : ConnectType_ord(y) < ConnectType_ord(x))
             above == SelectSeq(set, LAMBDA y : ConnectType_ord(y) > ConnectType_ord(x))
         IN  below \o <<x>> \o above

\* the bit tests of the decoder, in the order the code makes them
\* faulty variant: the bits of Spiral and Dog follow the enum order
Connector_bits_swapped ==
    <<[mask |-> 1, tag |-> "Circle"], [mask |-> 2, tag |-> "Triangle"],
      [mask |-> 4, tag |-> "Square"], [mask |-> 8, tag |-> "Diamond"],
      [mask |-> 16, tag |-> "Dog"], [mask |-> 32, tag |-> "Spiral"]>>

Connector_bits ==
    <<[mask |-> 1, tag |-> "Circle"], [mask |-> 2, tag |-> "Triangle"],
      [mask |-> 4, tag |-> "Square"], [mask |-> 8, tag |-> "Diamond"],
      [mask |-> 16, tag |-> "Spiral"], [mask |-> 32, tag |-> "Dog"]>>

\* `if (connect & mask) > 0 { set.insert(tag); }` for the tests from the i-th on
RECURSIVE Connector_decode(_, _, _)
Connector_decode(connect, i, set) ==
    IF i > Len(Connector_bits) THEN set
    ELSE Connector_decode(connect, i + 1,
             IF BitAnd(connect, Connector_bits[i].mask) > 0
             THEN BTreeSet_insert(set, Connector_bits[i].tag)
             ELSE set)

Connector_try_from(value) ==
    IF value.tag # "Uint" THEN Err(NotVariantErr("Uint"))
    ELSE Ok(Connector_decode(value.u, 1, BTreeSet_new))

\* Display for Connector: one glyph per member, in iteration order
ConnectType_fmt(t) ==
    CASE t = "Circle" -> "C"
      [] t = "Triangle" -> "T"
      [] t = "Square" -> "S"
      [] t = "Diamond" -> "D"
      [] t = "Dog" -> "P"
      [] t = "Spiral" -> "@"

Connector_fmt(c) == [i \in 1..Len(c) |-> ConnectType_fmt(c[i])]

----------------------------------------------------------------------------
(* data.rs: Card and Deck *)

NoCardFieldErr(key) == [msg |-> "No field in card", key |-> key]

\* Each decoder is written as the chain of its steps: a step receives the
\* Result of the expression before it, returns its Err at once (`?`) and
\* otherwise goes on with the next expression.

\* `Connector::try_from(if let Some(x) = value.get(key) { x } else { return Err(..) })?`
Card_connector(card, key) ==
    IF HasKey(card, key) THEN Connector_try_from(card[key]) ELSE Err(NoCardFieldErr(key))

Card_effect(card, key) ==
    IF HasKey(card, key) THEN Effect_try_from(card[key]) ELSE Err(NoCardFieldErr(key))

Card_3(input, output, effect) ==
    IF ~effect.ok THEN effect
    ELSE Ok([input |-> input, output |-> output, effect |-> effect.val])

Card_2(card, input, output) ==
    IF ~output.ok THEN output ELSE Card_3(input, output.val, Card_effect(card, "effect"))

Card_1(card, input) ==
    IF ~input.ok THEN input ELSE Card_2(card, input.val, Card_connector(card, "output"))

\* faulty variant: the three keys are looked up before any field is decoded
Card_try_from_keys_first(value) ==
    IF value.tag # "Struct" THEN Err(NotVariantErr("Struct"))
    ELSE IF ~HasKey(value.m, "input") THEN Err(NoCardFieldErr("input"))
    ELSE IF ~HasKey(value.m, "output") THEN Err(NoCardFieldErr("output"))
    ELSE IF ~HasKey(value.m, "effect") THEN Err(NoCardFieldErr("effect"))
    ELSE Card_1(value.m, Card_connector(value.m, "input"))

Card_try_from(value) ==
    IF value.tag # "Struct" THEN Err(NotVariantErr("Struct"))
    ELSE Card_1(value.m, Card_connector(value.m, "input"))

\* the `for card in cards { deck.push(card.try_into()?) }` loop
RECURSIVE Deck_push_cards(_, _, _)
\* faulty variant: an element that is no card is left out
Deck_push_skip(cards, i, deck, card) ==
    IF ~card.ok THEN Deck_push_cards(cards, i + 1, deck)
    ELSE Deck_push_cards(cards, i + 1, Append(deck, card.val))

Deck_push(cards, i, deck, card) ==
    IF ~card.ok THEN card ELSE Deck_push_cards(cards, i + 1, Append(deck, card.val))

Deck_push_cards(cards, i, deck) ==
    IF i > Len(cards) THEN Ok(deck) ELSE Deck_push(cards, i, deck, Card_try_from(cards[i]))

NoAnchorErr == [msg |-> "No anchor field for Deck"]

Deck_anchor(value) ==
    IF HasKey(value, "anchor") THEN Card_try_from(value["anchor"]) ELSE Err(NoAnchorErr)

Deck_3(deck, anchor) ==
    IF ~anchor.ok THEN anchor ELSE Ok([anchor |-> anchor.val, cards |-> deck])

Deck_2(value, deck) ==
    IF ~deck.ok THEN deck ELSE Deck_3(deck.val, Deck_anchor(value))

Deck_1(value, cards) ==
    IF ~cards.ok THEN cards ELSE Deck_2(value, Deck_push_cards(cards.val, 1, <<>>))

Deck_try_from(value) == Deck_1(value, field_get(None, value, "cards", "List"))

----------------------------------------------------------------------------
(* data.rs: RawEvent *)

\* str::split(""): an empty piece, one piece per character, an empty piece
split_empty(text) == <<"">> \o text \o <<"">>

\* Iterator::skip(n)
skip(seq, n) == IF n >= Len(seq) THEN <<>> ELSE SubSeq(seq, n + 1, Len(seq))

\* Iterator::step_by(n): the elements at offsets 0, n, 2n, ...
step_by(seq, n) ==
    [i \in 1..((Len(seq) + n - 1) \div n) |-> seq[(i - 1) * n + 1]]

DigitChars == {"0", "1", "2", "3", "4", "5", "6", "7", "8", "9"}

DigitVal(c) ==
    CASE c = "0" -> 0 [] c = "1" -> 1 [] c = "2" -> 2 [] c = "3" -> 3 [] c = "4" -> 4
      [] c = "5" -> 5 [] c = "6" -> 6 [] c = "7" -> 7 [] c = "8" -> 8 [] c = "9" -> 9

\* u8::from_str_radix(s, 10) on one piece of split("")
u8_from_str_radix(s) ==
    IF s \in DigitChars THEN Ok(DigitVal(s)) ELSE Err([msg |-> "ParseIntError"])

\* flat_map over Result: the Ok values, in order; the Err ones vanish
flat_map_parse(pieces) ==
    LET parsed == SelectSeq(pieces, LAMBDA s : u8_from_str_radix(s).ok)
    IN  [i \in 1..Len(parsed) |-> u8_from_str_radix(parsed[i]).val]

\* faulty variant: one more piece is skipped
sequence_lengths_skip3(sequence) == flat_map_parse(step_by(skip(split_empty(sequence), 3), 8))

sequence_lengths_of(sequence) == flat_map_parse(step_by(skip(split_empty(sequence), 2), 8))

TryFromIntError == [msg |-> "out of range integral type conversion attempted"]

\* faulty variant: the narrowing is an `as u8` cast
u8_wrapping(x) == Ok(x % 256)

u8_try_from(x) == IF x > 255 THEN Err(TryFromIntError) ELSE Ok(x)

SequenceParseErr(id) == [msg |-> "Failed to parse sequence field", event |-> Some(id)]

\* the `deck:` expression of the RawEvent literal
Some_deck(d) == IF ~d.ok THEN d ELSE Ok(Some(d.val))

RawEvent_deck_1(event_deck) ==
    IF ~event_deck.ok THEN event_deck ELSE Some_deck(Deck_try_from(event_deck.val))

\* faulty variant: a present `deck` is decoded whatever overrideDeck says
RawEvent_deck_always(id, event, override_deck) ==
    IF HasKey(event, "deck") /\ event["deck"].tag = "Struct"
    THEN Some_deck(Deck_try_from(event["deck"].m))
    ELSE Ok(None)

RawEvent_deck(id, event, override_deck) ==
    IF override_deck = 1
    THEN RawEvent_deck_1(field_get(Some(id), event, "deck", "Struct"))
    ELSE Ok(None)

\* faulty variant: surplus digits are accepted
RawEvent_sequence_ok_lenient(sequence_lengths, seq_count) == Len(sequence_lengths) >= seq_count

\* `sequence_lengths.len() as u64 != *seq_count` is the failure
RawEvent_sequence_ok(sequence_lengths, seq_count) == Len(sequence_lengths) = seq_count

RawEvent_11(f, sequence_lengths, sc, st, deck) ==
    IF ~deck.ok THEN deck
    ELSE Ok([id |-> f.id,
             npc_guid |-> f.npc_guid,
             sequence_count |-> sc,
             strike_count |-> st,
             sequence_lengths |-> sequence_lengths,
             deck |-> deck.val])

RawEvent_10(event, f, sequence_lengths, sc, st) ==
    IF ~st.ok THEN st
    ELSE RawEvent_11(f, sequence_lengths, sc, st.val, RawEvent_deck(f.id, event, f.override_deck))

RawEvent_9(event, f, sequence_lengths, sc) ==
    IF ~sc.ok THEN sc
    ELSE RawEvent_10(event, f, sequence_lengths, sc.val, u8_try_from(f.strike_count))

RawEvent_8(event, f, sequence_lengths) ==
    IF ~RawEvent_sequence_ok(sequence_lengths, f.seq_count) THEN Err(SequenceParseErr(f.id))
    ELSE RawEvent_9(event, f, sequence_lengths, u8_try_from(f.seq_count))

RawEvent_7(event, id, sequence, seq_count, strike_count, override_deck, npc_guid) ==
    IF ~npc_guid.ok THEN npc_guid
    ELSE RawEvent_8(event,
                    [id |-> id, seq_count |-> seq_count, strike_count |-> strike_count,
                     override_deck |-> override_deck, npc_guid |-> npc_guid.val],
                    sequence_lengths_of(sequence))

RawEvent_6(event, id, sequence, seq_count, strike_count, override_deck, npc_data) ==
    IF ~npc_data.ok THEN npc_data
    ELSE RawEvent_7(event, id, sequence, seq_count, strike_count, override_deck,
                    field_get(Some(id), npc_data.val, "guid", "Str"))

RawEvent_5(event, id, sequence, seq_count, strike_count, override_deck) ==
    IF ~override_deck.ok THEN override_deck
    ELSE RawEvent_6(event, id, sequence, seq_count, strike_count, override_deck.val,
                    field_get(Some(id), event, "npc", "Struct"))

RawEvent_4(event, id, sequence, seq_count, strike_count) ==
    IF ~strike_count.ok THEN strike_count
    ELSE RawEvent_5(event, id, sequence, seq_count, strike_count.val,
                    field_get(Some(id), event, "overrideDeck", "Uint"))

RawEvent_3(event, id, sequence, seq_count) ==
    IF ~seq_count.ok THEN seq_count
    ELSE RawEvent_4(event, id, sequence, seq_count.val,
                    field_get(Some(id), event, "strikeCount", "Uint"))

RawEvent_2(event, id, sequence) ==
    IF ~sequence.ok THEN sequence
    ELSE RawEvent_3(event, id, sequence.val, field_get(Some(id), event, "sequenceCount", "Uint"))

RawEvent_1(event, id) ==
    IF ~id.ok THEN id
    ELSE RawEvent_2(event, id.val, field_get(None, event, "sequence", "Str"))

RawEvent_try_from(value) ==
    IF value.tag # "Struct" THEN Err(NotVariantErr("Struct"))
    ELSE RawEvent_1(value.m, field_get(None, value.m, "id", "Str"))

----------------------------------------------------------------------------
(* data.rs: Ord for RawEvent; the order of the String keys of the maps *)

\* the byte of an ASCII character of the sample identifiers
CharCode(c) ==
    CASE c \in DigitChars -> 48 + DigitVal(c)
      [] c = "e" -> 101
      [] c = "g" -> 103
      [] c = "n" -> 110
      [] c = "x" -> 120
      [] OTHER -> 0

Int_cmp(x, y) == IF x < y THEN "Less" ELSE IF x > y THEN "Greater" ELSE "Equal"

\* the positions at which both texts have a character and the two differ
DiffPositions(a, b) == {i \in 1..Len(a) : i <= Len(b) /\ a[i] # b[i]}

String_cmp_at(a, b, diff) ==
    IF diff = {} THEN Int_cmp(Len(a), Len(b))
    ELSE Int_cmp(CharCode(a[CHOOSE i \in diff : \A j \in diff : i <= j]),
                 CharCode(b[CHOOSE i \in diff : \A j \in diff : i <= j]))

\* Ord for String: the bytes are compared in order, a proper prefix is less
String_cmp(a, b) == String_cmp_at(a, b, DiffPositions(a, b))

\* faulty variant: as #[derive(Ord)] would compare, id first and then npc_guid
RawEvent_cmp_derived(self, other) ==
    IF String_cmp(self.id, other.id) # "Equal" THEN String_cmp(self.id, other.id)
    ELSE String_cmp(self.npc_guid, other.npc_guid)

RawEvent_cmp(self, other) == String_cmp(self.id, other.id)

RECURSIVE BTreeSet_iter(_)
\* the elements of a BTreeSet<String>, or the keys of a BTreeMap<String, _>,
\* in the order iter() visits them
BTreeSet_iter(set) ==
    IF set = {} THEN <<>>
    ELSE <<CHOOSE x \in set : \A y \in set : String_cmp(x, y) # "Greater">>
         \o BTreeSet_iter(set \ {CHOOSE x \in set : \A y \in set : String_cmp(x, y) # "Greater"})

\* BTreeMap::keys
BTreeMap_keys(map) == BTreeSet_iter(DOMAIN map)

----------------------------------------------------------------------------
(* Inputs of the decoders *)

\* identifiers, as Text
E1 == <<"e", "1">>

E2 == <<"e", "2">>

E10 == <<"e", "1", "0">>

G1 == <<"g", "1">>

G2 == <<"g", "2">>

G9 == <<"g", "9">>

N1 == <<"n", "1">>

N2 == <<"n", "2">>

\* one value of every variant of Field, and a second Uint and Int
FieldSamples ==
    {StructF(EmptyMap), ListF(<<>>), BoolF(TRUE), UintF(1), UintF(7), IntF(7), IntF(-1),
     FloatF(<<"1", ".", "5">>), NullF, StrF(E1)}

\* the 0-based character positions next to the sampled ones
Interesting == {p \in 0..(MaxSeqLen - 1) : p % 8 \in {1, 2}}

SeqChars == {"3", "x"}

\* a text of len characters: "0" everywhere but at the interesting positions
TextOf(len, c) == [i \in 1..len |-> IF (i - 1) \in Interesting THEN c[i - 1] ELSE "0"]

Texts == {TextOf(len, c) : len \in 0..MaxSeqLen, c \in [Interesting -> SeqChars]}

EventTexts ==
    {TextOf(len, [p \in Interesting |-> IF p = bad THEN "x" ELSE "3"]) :
        len \in {0, 2, 10, MaxSeqLen}, bad \in {-1, 1, 2}}

\* 256 sampled digits: the shortest text whose sample count leaves u8
LongText == [i \in 1..(8 * 255 + 2) |-> IF i % 8 = 2 THEN "1" ELSE "0"]

CardStruct(i, o, e) == StructF(("input" :> UintF(i)) @@ ("output" :> UintF(o)) @@ ("effect" :> UintF(e)))

GoodDeck == StructF(("anchor" :> CardStruct(1, 2, 0)) @@ ("cards" :> ListF(<<CardStruct(5, 48, 3)>>)))

EmptyDeck == StructF(("anchor" :> CardStruct(1, 2, 0)) @@ ("cards" :> ListF(<<>>)))

NoAnchorDeck == StructF("cards" :> ListF(<<CardStruct(5, 48, 3)>>))

BadCardDeck ==
    StructF(("anchor" :> CardStruct(1, 2, 0))
            @@ ("cards" :> ListF(<<CardStruct(5, 48, 3), StructF("input" :> UintF(1))>>)))

\* what a key of a card may hold; NullF stands for "no key"
CardFieldInputs == {NullF, UintF(3), UintF(80), IntF(7)}

CardKeys == <<"input", "output", "effect">>

\* the card struct holding the keys whose value is not NullF
CardOf(fields) ==
    StructF([k \in {CardKeys[i] : i \in {j \in 1..3 : fields[j] # NullF}}
                |-> fields[CHOOSE i \in 1..3 : CardKeys[i] = k]])

\* list elements: two cards, a struct with `input` only, no struct
CardSamples == {CardStruct(5, 48, 3), CardStruct(1, 2, 0), StructF("input" :> UintF(1)), UintF(9)}

RECURSIVE SeqsUpTo(_, _)
\* the sequences over S of length 0..n
SeqsUpTo(S, n) ==
    IF n = 0 THEN {<<>>}
    ELSE LET shorter == SeqsUpTo(S, n - 1) IN
         shorter \cup {Append(q, x) : q \in {r \in shorter : Len(r) = n - 1}, x \in S}

\* what the `cards` key of a deck may hold; NullF stands for "no key"
CardsInputs == {NullF, UintF(0)} \cup {ListF(q) : q \in SeqsUpTo(CardSamples, MaxCards)}

\* what the `anchor` key of a deck may hold; NullF stands for "no key"
AnchorInputs == {NullF} \cup CardSamples

DeckStruct(cards, anchor) ==
    StructF([k \in {x \in {"cards"} : cards # NullF} \cup {x \in {"anchor"} : anchor # NullF}
                |-> IF k = "cards" THEN cards ELSE anchor])

\* what the `deck` key of an event record may hold; NullF stands for "no key"
DeckInputs == {NullF, UintF(0), GoodDeck, EmptyDeck, NoAnchorDeck, BadCardDeck}

EventKeys == {"id", "sequence", "sequenceCount", "strikeCount", "overrideDeck", "npc"}

EventStruct(id, guid, text, seq_count, strike_count, override_deck, deck) ==
    LET base == ("id" :> StrF(id)) @@ ("sequence" :> StrF(text))
                @@ ("sequenceCount" :> UintF(seq_count)) @@ ("strikeCount" :> UintF(strike_count))
                @@ ("overrideDeck" :> UintF(override_deck))
                @@ ("npc" :> StructF("guid" :> StrF(guid)))
    IN  StructF(IF deck = NullF THEN base ELSE base @@ ("deck" :> deck))

\* the record without key k
WithoutKey(value, k) == StructF([x \in (DOMAIN value.m) \ {k} |-> value.m[x]])

\* the record with key k holding v
WithKey(value, k, v) == StructF([x \in (DOMAIN value.m) \cup {k} |-> IF x = k THEN v ELSE value.m[x]])

----------------------------------------------------------------------------
(* The decoders, applied to drawn inputs *)

DecodeInit == d_op = "none" /\ d_arg = NullF /\ d_ret = Ok(NullF)

CallEffect ==
    /\ d_op = "none"
    /\ \E n \in 0..MaxUint :
        /\ d_op' = "Effect"
        /\ d_arg' = UintF(n)
        /\ d_ret' = Effect_try_from(UintF(n))
        /\ UNCHANGED load_vars

CallConnector ==
    /\ d_op = "none"
    /\ \E n \in 0..MaxUint :
        /\ d_op' = "Connector"
        /\ d_arg' = UintF(n)
        /\ d_ret' = Connector_try_from(UintF(n))
        /\ UNCHANGED load_vars

CallFieldGet ==
    /\ d_op = "none"
    /\ \E stored \in FieldSamples, has \in BOOLEAN, key \in {"id", "guid"},
       t \in FieldTypes, event_id \in {None, Some(E1)} :
        LET map == IF has THEN ("id" :> stored) @@ ("mad" :> UintF(3)) ELSE ("mad" :> UintF(3)) IN
        /\ d_op' = "field_get"
        /\ d_arg' = [map |-> map, key |-> key, type |-> t, event |-> event_id]
        /\ d_ret' = field_get(event_id, map, key, t)
        /\ UNCHANGED load_vars

CallSequence ==
    /\ d_op = "none"
    /\ \E text \in Texts :
        /\ d_op' = "sequence"
        /\ d_arg' = StrF(text)
        /\ d_ret' = Ok(sequence_lengths_of(text))
        /\ UNCHANGED load_vars

CallRawEvent ==
    /\ d_op = "none"
    /\ \E text \in EventTexts, seq_count \in 0..3, strike_count \in {0, 255, 256},
       override_deck \in 0..2, deck \in DeckInputs :
        LET value == EventStruct(E1, G1, text, seq_count, strike_count, override_deck, deck) IN
        /\ d_op' = "RawEvent"
        /\ d_arg' = value
        /\ d_ret' = RawEvent_try_from(value)
        /\ UNCHANGED load_vars

\* an event record with 255, 256 or 257 announced sequences and 256 sampled digits
CallRawEventLong ==
    /\ d_op = "none"
    /\ \E seq_count \in {255, 256, 257}, strike_count \in {0, 256} :
        LET value == EventStruct(E1, G1, LongText, seq_count, strike_count, 0, NullF) IN
        /\ d_op' = "RawEvent"
        /\ d_arg' = value
        /\ d_ret' = RawEvent_try_from(value)
        /\ UNCHANGED load_vars

\* an event record with one required key missing or of another variant
CallRawEventBroken ==
    /\ d_op = "none"
    /\ \E k \in EventKeys \cup {"guid"}, wrong \in {NullF, IntF(7), BoolF(TRUE)},
       override_deck \in 0..1, deck \in {NullF, GoodDeck} :
        LET good == EventStruct(E1, G1, TextOf(2, [p \in Interesting |-> "3"]), 1, 0, override_deck, deck)
            inner == StructF(IF wrong = NullF THEN EmptyMap ELSE "guid" :> wrong)
            value == IF k = "guid" THEN WithKey(good, "npc", inner)
                     ELSE IF wrong = NullF THEN WithoutKey(good, k)
                     ELSE WithKey(good, k, wrong) IN
        /\ d_op' = "RawEvent"
        /\ d_arg' = value
        /\ d_ret' = RawEvent_try_from(value)
        /\ UNCHANGED load_vars

CallDeck ==
    /\ d_op = "none"
    /\ \E cards \in CardsInputs, anchor \in AnchorInputs :
        /\ d_op' = "Deck"
        /\ d_arg' = DeckStruct(cards, anchor)
        /\ d_ret' = Deck_try_from(DeckStruct(cards, anchor).m)
        /\ UNCHANGED load_vars

CallCard ==
    /\ d_op = "none"
    /\ \E value \in {CardOf(f) : f \in [1..3 -> CardFieldInputs]} \cup {UintF(9)} :
        /\ d_op' = "Card"
        /\ d_arg' = value
        /\ d_ret' = Card_try_from(value)
        /\ UNCHANGED load_vars

----------------------------------------------------------------------------
(* data.rs: NPC *)

\* `x as u8`
\* faulty variant: a value above 255 becomes 255
as_u8_saturating(x) == IF x > 255 THEN 255 ELSE x

as_u8(x) == x % 256

DeckKeys == <<"deck0", "deck1", "deck2", "deck3", "deck4", "deck5">>

\* the six field_get!(let deckN: Struct = field.deckN) in order
RECURSIVE NPC_get_decks(_, _, _)
NPC_get_deck(field, i, got, d) ==
    IF ~d.ok THEN d ELSE NPC_get_decks(field, i + 1, Append(got, d.val))

NPC_get_decks(field, i, got) ==
    IF i > Len(DeckKeys) THEN Ok(got)
    ELSE NPC_get_deck(field, i, got, field_get(None, field, DeckKeys[i], "Struct"))

\* the six deckN.try_into()? of the `decks` array, in order
RECURSIVE NPC_decode_decks(_, _, _)
NPC_decode_deck(structs, i, decks, d) ==
    IF ~d.ok THEN d ELSE NPC_decode_decks(structs, i + 1, Append(decks, d.val))

NPC_decode_decks(structs, i, decks) ==
    IF i > Len(structs) THEN Ok(decks)
    ELSE NPC_decode_deck(structs, i, decks, Deck_try_from(structs[i]))

NPC_6(id, hand_size, doubles, mad, decks) ==
    IF ~decks.ok THEN decks
    ELSE Ok([id |-> id,
             hand_size |-> as_u8(hand_size),
             prefers_doubles |-> (doubles # 0),
             mad_threshold |-> as_u8(mad),
             decks |-> decks.val])

NPC_5(id, hand_size, doubles, mad, structs) ==
    IF ~structs.ok THEN structs
    ELSE NPC_6(id, hand_size, doubles, mad, NPC_decode_decks(structs.val, 1, <<>>))

NPC_4(field, id, hand_size, doubles, mad) ==
    IF ~mad.ok THEN mad
    ELSE NPC_5(id, hand_size, doubles, mad.val, NPC_get_decks(field, 1, <<>>))

NPC_3(field, id, hand_size, doubles) ==
    IF ~doubles.ok THEN doubles
    ELSE NPC_4(field, id, hand_size, doubles.val, field_get(None, field, "mad", "Uint"))

NPC_2(field, id, hand_size) ==
    IF ~hand_size.ok THEN hand_size
    ELSE NPC_3(field, id, hand_size.val, field_get(None, field, "prefersDoubles", "Uint"))

NPC_1(field, id) ==
    IF ~id.ok THEN id
    ELSE NPC_2(field, id.val, field_get(None, field, "handSize", "Uint"))

NPC_try_from(field) == NPC_1(field, field_get(None, field, "id", "Str"))

\* faulty variant: the pre-check looks for `mad`
NPC_is_npc_mad(map) == HasKey(map, "mad")

NPC_is_npc(map) == HasKey(map, "deck0")

\* a document that File::open cannot open
NoFile == [tag |-> "NoFile"]

IoErr == [msg |-> "io"]

RootErr == [msg |-> "Root isn't a map"]

Some_npc(npc) == IF ~npc.ok THEN npc ELSE Ok(Some(npc.val))

NPC_load_asset_1(monobehaviour) ==
    IF ~monobehaviour.ok THEN monobehaviour
    ELSE IF NPC_is_npc(monobehaviour.val) THEN Some_npc(NPC_try_from(monobehaviour.val))
    ELSE Ok(None)

\* NPC::load_asset on the document at the asset path: Ok(Some(npc)), Ok(None) or Err
NPC_load_asset(yaml) ==
    IF yaml = NoFile THEN Err(IoErr)
    ELSE IF yaml.tag # "Struct" THEN Err(RootErr)
    ELSE NPC_load_asset_1(field_get(None, yaml.m, "MonoBehaviour", "Struct"))

----------------------------------------------------------------------------
(* Maps: BTreeMap as a function, BiBTreeMap as a set of <<left, right>> pairs *)

BTreeMap_insert(map, k, v) == [x \in (DOMAIN map) \cup {k} |-> IF x = k THEN v ELSE map[x]]

Lefts(bimap) == {p[1] : p \in bimap}

Rights(bimap) == {p[2] : p \in bimap}

\* faulty variant: the pair is added and no pair is overwritten
BiBTreeMap_insert_keep(bimap, l, r) == bimap \cup {<<l, r>>}

\* BiBTreeMap::insert: the pairs holding the left or the right value are
\* overwritten, the call never fails
BiBTreeMap_insert(bimap, l, r) == {p \in bimap : p[1] # l /\ p[2] # r} \cup {<<l, r>>}

\* faulty variant: the guid is looked up among the right values
get_by_left_swapped(bimap, l) ==
    IF l \in Rights(bimap) THEN Some((CHOOSE p \in bimap : p[2] = l)[1]) ELSE None

\* BiBTreeMap::get_by_left
get_by_left(bimap, l) ==
    IF l \in Lefts(bimap) THEN Some((CHOOSE p \in bimap : p[1] = l)[2]) ELSE None

\* BiBTreeMap::get_by_right
get_by_right(bimap, r) ==
    IF r \in Rights(bimap) THEN Some((CHOOSE p \in bimap : p[2] = r)[1]) ELSE None

----------------------------------------------------------------------------
(* Inputs of the loader *)

DeckSlots == [k \in {"deck0", "deck1", "deck2", "deck3", "deck4", "deck5"} |-> EmptyDeck]

NPCStruct(id, hand_size) ==
    ("id" :> StrF(id)) @@ ("handSize" :> UintF(hand_size)) @@ ("prefersDoubles" :> UintF(1))
    @@ ("mad" :> UintF(3)) @@ DeckSlots

Asset(mono) == StructF("MonoBehaviour" :> StructF(mono))

\* values of handSize and mad around the end of the 8-bit range
NarrowSamples == {0, 5, 255, 256, 300, 511}

\* NPC try_from on the struct of an NPC asset
CallNPC ==
    /\ d_op = "none"
    /\ \E hand_size \in NarrowSamples, mad \in NarrowSamples :
        /\ d_op' = "NPC"
        /\ d_arg' = StructF([NPCStruct(N1, hand_size) EXCEPT !["mad"] = UintF(mad)])
        /\ d_ret' = NPC_try_from([NPCStruct(N1, hand_size) EXCEPT !["mad"] = UintF(mad)])
        /\ UNCHANGED load_vars

\* NPC assets, an asset of another kind, an NPC asset lacking `mad`, one
\* whose `deck0` is no struct, a list at the root
AssetDocs ==
    {Asset(NPCStruct(N1, 5)), Asset(NPCStruct(N2, 5)), Asset(NPCStruct(N1, 300)),
     Asset("name" :> StrF(E1)),
     Asset([k \in (DOMAIN NPCStruct(N1, 5)) \ {"mad"} |-> NPCStruct(N1, 5)[k]]),
     Asset([NPCStruct(N2, 5) EXCEPT !["deck0"] = UintF(0)]),
     ListF(<<>>)}

\* sidecars with a guid, one without, a list at the root
MetaDocs ==
    {StructF("guid" :> StrF(G1)), StructF("guid" :> StrF(G2)), StructF("fileFormatVersion" :> UintF(2)),
     ListF(<<>>)}

\* the shapes of event_data.asset around its `data` list
EventDocs ==
    {NoFile, ListF(<<>>), StructF("name" :> StrF(E1)), Asset("name" :> StrF(E1)),
     Asset("data" :> UintF(0)), Asset("data" :> ListF(<<>>))}

SeqText32 == [i \in 1..16 |-> IF i = 2 THEN "3" ELSE IF i = 10 THEN "2" ELSE "0"]

\* event records: every id with every guid, one with an override deck, one
\* whose sequence does not match its count, one with a longer id
EventFields ==
    {EventStruct(id, guid, SeqText32, 2, 1, 0, NullF) : id \in {E1, E2}, guid \in {G1, G2, G9}}
    \cup {EventStruct(E1, G1, SeqText32, 2, 1, 1, GoodDeck),
          EventStruct(E2, G2, SeqText32, 3, 1, 0, NullF),
          EventStruct(E10, G1, SeqText32, 2, 1, 0, NullF)}

----------------------------------------------------------------------------
(* interface.rs: App::new, build_npc_maps, parse_event_data *)

LoadInit ==
    /\ pc = "phase1"
    /\ event_map = EmptyMap
    /\ npc_map = EmptyMap
    /\ npc_guids = {}
    /\ npc_events = EmptyMap
    /\ collected = EmptyMap
    /\ n_pairs = 0
    /\ n_events = 0
    /\ load_err = None
    /\ last_in = [kind |-> "none"]
    /\ dup_seen = FALSE
    /\ app = None
    /\ state = [tag |-> "Root"]
    /\ run_pc = "idle"

Init == DecodeInit /\ LoadInit

build_npc_read_2(guid, npc) ==
    IF ~npc.ok THEN npc
    ELSE IF npc.val.some THEN Ok(Some([guid |-> guid, npc |-> npc.val.v]))
    ELSE Ok(None)

build_npc_read_1(guid, asset_yaml) ==
    IF ~guid.ok THEN guid ELSE build_npc_read_2(guid.val, NPC_load_asset(asset_yaml))

\* one iteration of `for meta_file in meta_files` up to the insertions:
\* Err, Ok(None) for an asset that is no NPC, or Ok(Some([guid, npc]))
build_npc_read(meta_yaml, asset_yaml) ==
    IF meta_yaml.tag # "Struct" THEN Err(RootErr)
    ELSE build_npc_read_1(field_get(None, meta_yaml.m, "guid", "Str"), asset_yaml)

\* `out`, the App under construction in App::new
App_out(events) ==
    [event_map |-> events, npc_map |-> npc_map, npc_guids |-> npc_guids, npc_events |-> npc_events]

\* what the caller of App::new holds once it returned r
\* faulty variant: the App under construction is handed over whatever r is
App_new_shared(r, out) == Some(out)

App_new(r, out) == IF r.ok THEN Some(out) ELSE None

\* faulty variant: the error is recorded and the load goes on
Fail_continue(e) == pc' = pc /\ load_err' = Some(e) /\ app' = App_new(Err(e), App_out(event_map))

\* a `?` of App::new or of one of the phases returns the error
Fail(e) == pc' = "failed" /\ load_err' = Some(e) /\ app' = App_new(Err(e), App_out(event_map))

ScanPair ==
    /\ pc = "phase1"
    /\ n_pairs < MaxPairs
    /\ \E meta_yaml \in MetaDocs, asset_yaml \in AssetDocs :
        LET r == build_npc_read(meta_yaml, asset_yaml) IN
        /\ last_in' = [kind |-> "pair", meta |-> meta_yaml, asset |-> asset_yaml]
        /\ n_pairs' = n_pairs + 1
        /\ IF ~r.ok
           THEN /\ Fail(r.err)
                /\ UNCHANGED <<npc_guids, npc_events, npc_map, dup_seen>>
           ELSE IF ~r.val.some
           THEN UNCHANGED <<pc, load_err, app, npc_guids, npc_events, npc_map, dup_seen>>
           ELSE LET guid == r.val.v.guid
                    npc == r.val.v.npc IN
                /\ npc_guids' = BiBTreeMap_insert(npc_guids, guid, npc.id)
                /\ npc_events' = BTreeMap_insert(npc_events, npc.id, {})
                /\ npc_map' = BTreeMap_insert(npc_map, guid, npc)
                /\ dup_seen' = (dup_seen \/ guid \in Lefts(npc_guids) \/ npc.id \in Rights(npc_guids))
                /\ UNCHANGED <<pc, load_err, app>>
    /\ UNCHANGED <<event_map, collected, n_events>>
    /\ UNCHANGED decode_vars
    /\ UNCHANGED menu_vars

parse_event_head_1(monobehaviour) ==
    IF ~monobehaviour.ok THEN monobehaviour
    ELSE field_get(None, monobehaviour.val, "data", "List")

\* the head of parse_event_data: the `data` list of the events document
parse_event_head(yaml) ==
    IF yaml = NoFile THEN Err(IoErr)
    ELSE IF yaml.tag # "Struct" THEN Err(RootErr)
    ELSE parse_event_head_1(field_get(None, yaml.m, "MonoBehaviour", "Struct"))

\* build_npc_maps returns Ok and parse_event_data opens the events document
StartPhase2 ==
    /\ pc = "phase1"
    /\ \E yaml \in EventDocs :
        LET events == parse_event_head(yaml) IN
        /\ last_in' = [kind |-> "events", doc |-> yaml]
        /\ IF events.ok THEN pc' = "phase2" /\ UNCHANGED <<load_err, app>> ELSE Fail(events.err)
    /\ UNCHANGED <<event_map, npc_map, npc_guids, npc_events, collected, n_pairs, n_events, dup_seen>>
    /\ UNCHANGED decode_vars
    /\ UNCHANGED menu_vars

UnknownGuidErr(guid, id) == [msg |-> "Unknown NPC Guid", guid |-> guid, event |-> Some(id)]

NotAddedErr(npc_id) == [msg |-> "NPC somehow wasn't added to the npc_events map", npc |-> npc_id]

\* the body of the closure once the event is decoded
\* faulty variant: an unknown guid is kept as the NPC id instead of failing
link_event_lenient(raw, npc_id, index) ==
    IF npc_id.some /\ HasKey(index, npc_id.v)
    THEN Ok([index |-> [index EXCEPT ![npc_id.v] = @ \cup {raw.id}],
             id |-> raw.id,
             event |-> [npc_id |-> npc_id.v, event |-> raw]])
    ELSE Ok([index |-> index,
             id |-> raw.id,
             event |-> [npc_id |-> raw.npc_guid, event |-> raw]])

\* faulty variant: the event id is inserted into the set of every NPC
link_event_every(raw, npc_id, index) ==
    IF npc_id.some
    THEN IF ~HasKey(index, npc_id.v) THEN Err(NotAddedErr(npc_id.v))
         ELSE Ok([index |-> [n \in DOMAIN index |-> index[n] \cup {raw.id}],
                  id |-> raw.id,
                  event |-> [npc_id |-> npc_id.v, event |-> raw]])
    ELSE Err(UnknownGuidErr(raw.npc_guid, raw.id))

link_event(raw, npc_id, index) ==
    IF npc_id.some
    THEN IF ~HasKey(index, npc_id.v) THEN Err(NotAddedErr(npc_id.v))
         ELSE Ok([index |-> [index EXCEPT ![npc_id.v] = @ \cup {raw.id}],
                  id |-> raw.id,
                  event |-> [npc_id |-> npc_id.v, event |-> raw]])
    ELSE Err(UnknownGuidErr(raw.npc_guid, raw.id))

parse_event_closure_1(raw, guids, index) ==
    IF ~raw.ok THEN raw
    ELSE link_event(raw.val, get_by_left(guids, raw.val.npc_guid), index)

\* the closure mapped over the events: Err, or the (id, Event) pair to
\* collect together with the updated reverse index
parse_event_closure(field, guids, index) ==
    parse_event_closure_1(RawEvent_try_from(field), guids, index)

\* collect() pulls the next event record through the closure
LinkEvent ==
    /\ pc = "phase2"
    /\ n_events < MaxEvents
    /\ \E field \in EventFields :
        LET r == parse_event_closure(field, npc_guids, npc_events) IN
        /\ last_in' = [kind |-> "event", field |-> field]
        /\ n_events' = n_events + 1
        /\ IF ~r.ok
           THEN /\ Fail(r.err)
                /\ UNCHANGED <<npc_events, collected>>
           ELSE /\ npc_events' = r.val.index
                /\ collected' = BTreeMap_insert(collected, r.val.id, r.val.event)
                /\ UNCHANGED <<pc, load_err, app>>
    /\ UNCHANGED <<event_map, npc_map, npc_guids, n_pairs, dup_seen>>
    /\ UNCHANGED decode_vars
    /\ UNCHANGED menu_vars

\* the list is exhausted: collect() returns Ok, event_map is assigned and
\* App::new returns Ok(out)
FinishLoad ==
    /\ pc = "phase2"
    /\ event_map' = collected
    /\ pc' = "done"
    /\ app' = App_new(Ok(<<>>), App_out(collected))
    /\ UNCHANGED <<npc_map, npc_guids, npc_events, collected, n_pairs, n_events, load_err,
                   last_in, dup_seen>>
    /\ UNCHANGED decode_vars
    /\ UNCHANGED menu_vars

Next ==
    \/ ScanPair
    \/ StartPhase2
    \/ LinkEvent
    \/ FinishLoad

Spec == Init /\ [][Next]_vars

NextDecode ==
    \/ CallNPC
    \/ CallCard
    \/ CallDeck
    \/ CallEffect
    \/ CallConnector
    \/ CallFieldGet
    \/ CallSequence
    \/ CallRawEvent
    \/ CallRawEventLong
    \/ CallRawEventBroken

SpecDecode == Init /\ [][NextDecode]_vars

----------------------------------------------------------------------------
(* interface.rs: App::new in one step, and App::run, the menu loop *)

\* most sidecar/asset pairs and most event records of a load the menu runs on
MaxMenuPairs == 2

MaxMenuEvents == 2

RECURSIVE build_npc_maps(_, _, _)
\* the body of `for meta_file in meta_files` after the pair was read
build_npc_maps_insert(pairs, i, out, r) ==
    IF ~r.ok THEN r
    ELSE IF ~r.val.some THEN build_npc_maps(pairs, i + 1, out)
    ELSE build_npc_maps(pairs, i + 1,
            [out EXCEPT !.npc_guids = BiBTreeMap_insert(@, r.val.v.guid, r.val.v.npc.id),
                        !.npc_events = BTreeMap_insert(@, r.val.v.npc.id, {}),
                        !.npc_map = BTreeMap_insert(@, r.val.v.guid, r.val.v.npc)])

\* build_npc_maps over the pairs i.. of the folder: Err, or the App with the
\* three resolver maps
build_npc_maps(pairs, i, out) ==
    IF i > Len(pairs) THEN Ok(out)
    ELSE build_npc_maps_insert(pairs, i, out, build_npc_read(pairs[i].meta, pairs[i].asset))

RECURSIVE parse_event_collect(_, _, _)
parse_event_collect_1(events, i, out, r) ==
    IF ~r.ok THEN r
    ELSE parse_event_collect(events, i + 1,
            [out EXCEPT !.npc_events = r.val.index,
                        !.event_map = BTreeMap_insert(@, r.val.id, r.val.event)])

\* events.iter().map(closure).collect() from the record i on
parse_event_collect(events, i, out) ==
    IF i > Len(events) THEN Ok(out)
    ELSE parse_event_collect_1(events, i, out,
            parse_event_closure(events[i], out.npc_guids, out.npc_events))

parse_event_data_1(events, out) ==
    IF ~events.ok THEN events ELSE parse_event_collect(events.val, 1, out)

\* parse_event_data on the events document
parse_event_data(yaml, out) == parse_event_data_1(parse_event_head(yaml), out)

App_new_1(yaml, out) == IF ~out.ok THEN out ELSE parse_event_data(yaml, out.val)

\* App::new on a folder with the given pairs and events document: Err or Ok(out)
App_new_all(pairs, yaml) ==
    App_new_1(yaml, build_npc_maps(pairs, 1,
        [event_map |-> EmptyMap, npc_map |-> EmptyMap, npc_guids |-> {}, npc_events |-> EmptyMap]))

\* the folder of a load the menu runs on: NPC pairs, also with a repeated
\* guid or NPC id, and a pair whose asset is no NPC
MenuPairs ==
    {[meta |-> StructF("guid" :> StrF(G1)), asset |-> Asset(NPCStruct(N1, 5))],
     [meta |-> StructF("guid" :> StrF(G2)), asset |-> Asset(NPCStruct(N2, 5))],
     [meta |-> StructF("guid" :> StrF(G2)), asset |-> Asset(NPCStruct(N1, 5))],
     [meta |-> StructF("guid" :> StrF(G1)), asset |-> Asset("name" :> StrF(E1))]}

\* its event records, two of them with the same id
MenuEvents ==
    {EventStruct(E1, G1, SeqText32, 2, 1, 0, NullF), EventStruct(E1, G2, SeqText32, 2, 1, 0, NullF),
     EventStruct(E2, G2, SeqText32, 2, 1, 0, NullF)}

store_vars == <<pc, event_map, npc_map, npc_guids, npc_events, collected, n_pairs, n_events,
                load_err, last_in, dup_seen, app>>

\* what App::new returns on each drawn folder, with the sizes of the folder
MenuLoads ==
    {[ret |-> App_new_all(pairs, Asset("data" :> ListF(events))),
      n_pairs |-> Len(pairs), n_events |-> Len(events)] :
        pairs \in SeqsUpTo(MenuPairs, MaxMenuPairs), events \in SeqsUpTo(MenuEvents, MaxMenuEvents)}

\* App::new from its first line to its return, on a drawn folder
LoadAll ==
    /\ pc = "phase1"
    /\ n_pairs = 0
    /\ \E load \in MenuLoads :
        /\ last_in' = [kind |-> "folder"]
        /\ IF load.ret.ok
           THEN /\ pc' = "done"
                /\ event_map' = load.ret.val.event_map
                /\ npc_map' = load.ret.val.npc_map
                /\ npc_guids' = load.ret.val.npc_guids
                /\ npc_events' = load.ret.val.npc_events
                /\ collected' = load.ret.val.event_map
                /\ n_pairs' = load.n_pairs
                /\ n_events' = load.n_events
                /\ app' = App_new(load.ret, load.ret.val)
                /\ UNCHANGED load_err
           ELSE /\ Fail(load.ret.err)
                /\ UNCHANGED <<event_map, npc_map, npc_guids, npc_events, collected, n_pairs, n_events>>
    /\ UNCHANGED dup_seen
    /\ UNCHANGED decode_vars
    /\ UNCHANGED menu_vars

\* faulty variant: the loop goes on in every state
is_running_always(self_state) == TRUE

is_running(self_state) == self_state.tag # "Quit"

\* what prompt() may return for a choice among options: an error (None) or
\* one of the options
Prompt(options) == {None} \cup {Some(x) : x \in options}

PromptErr == [msg |-> "prompt"]

\* the end of an arm: `?` returns the error from run, otherwise the loop
\* goes back to its condition with the new state
Resume(r) ==
    IF r.ok THEN state' = r.val /\ run_pc' = "check"
    ELSE run_pc' = "err" /\ UNCHANGED state

\* `while self.is_running()` and the choice of the arm of `match &self.state`
LoopCheck ==
    /\ app.some
    /\ run_pc \in {"idle", "check"}
    /\ run_pc' = IF ~is_running(state) THEN "ok"
                 ELSE IF state.tag = "Quit" THEN "unreachable"
                 ELSE "body"
    /\ UNCHANGED state
    /\ UNCHANGED store_vars
    /\ UNCHANGED decode_vars

\* Command::run with the answers of its prompts
Command_run(self, id, npc_id) ==
    CASE self = "ViewEvent" ->
            IF id.some THEN Ok([tag |-> "Event", id |-> id.v]) ELSE Err(PromptErr)
      [] self = "ViewNPC" ->
            IF npc_id.some THEN Ok([tag |-> "NPC", id |-> npc_id.v]) ELSE Err(PromptErr)
      [] self = "Quit" -> Ok([tag |-> "Quit"])

\* the arm Root
RootStep ==
    /\ run_pc = "body"
    /\ state.tag = "Root"
    /\ \E cmd \in Prompt({"ViewEvent", "ViewNPC", "Quit"}),
          id \in Prompt(DOMAIN event_map), npc_id \in Prompt(Rights(npc_guids)) :
        Resume(IF cmd.some THEN Command_run(cmd.v, id, npc_id) ELSE Err(PromptErr))
    /\ UNCHANGED store_vars
    /\ UNCHANGED decode_vars

\* the arm Event { id }
EventStep ==
    /\ run_pc = "body"
    /\ state.tag = "Event"
    /\ Resume(IF HasKey(event_map, state.id) THEN Ok([tag |-> "Root"])
              ELSE Err([msg |-> "Select somehow returned an invalid event id."]))
    /\ UNCHANGED store_vars
    /\ UNCHANGED decode_vars

DeckSubCommands == {"Deck1", "Deck2", "Deck3", "Deck4", "Deck5", "AllDecks", "FallbackDeck"}

\* NPCSubCommand::run with the answer of the deck prompt
NPCSubCommand_run(self, app_state, npc, deck_cmd) ==
    CASE self = "ViewEvents" -> Ok([tag |-> "NPCEvents", npc_id |-> npc.id])
      [] self = "ViewDecks" -> IF deck_cmd.some THEN Ok(app_state) ELSE Err(PromptErr)
      [] self = "Back" -> Ok([tag |-> "Root"])

App_run_NPC_1(guid, sub_cmd, deck_cmd) ==
    IF ~guid.some THEN Err([msg |-> "Select somehow returned an invalid NPC Id."])
    ELSE IF ~HasKey(npc_map, guid.v) THEN Err([msg |-> "NPC Id was mapped to an invalid NPC GUID."])
    ELSE IF ~sub_cmd.some THEN Err(PromptErr)
    ELSE NPCSubCommand_run(sub_cmd.v, state, npc_map[guid.v], deck_cmd)

\* the arm NPC { id }
NPCStep ==
    /\ run_pc = "body"
    /\ state.tag = "NPC"
    /\ \E sub_cmd \in Prompt({"ViewEvents", "ViewDecks", "Back"}), deck_cmd \in Prompt(DeckSubCommands) :
        Resume(App_run_NPC_1(get_by_right(npc_guids, state.id), sub_cmd, deck_cmd))
    /\ UNCHANGED store_vars
    /\ UNCHANGED decode_vars

\* the option added to the event ids of the NPC
Cancel == <<"c", "a", "n", "c", "e", "l">>

App_run_NPCEvents_1(npc_id, inspect, event_id) ==
    IF ~HasKey(npc_events, npc_id) THEN Err([msg |-> "Somehow ended up with an invalid NPC Id."])
    ELSE IF ~inspect.some THEN Err(PromptErr)
    ELSE IF ~inspect.v THEN Ok([tag |-> "NPC", id |-> npc_id])
    ELSE IF ~event_id.some THEN Err(PromptErr)
    ELSE IF HasKey(event_map, event_id.v) \/ event_id.v = Cancel THEN Ok([tag |-> "NPC", id |-> npc_id])
    ELSE Err([msg |-> "Select somehow returned an invalid event id."])

\* the arm NPCEvents { npc_id }
NPCEventsStep ==
    /\ run_pc = "body"
    /\ state.tag = "NPCEvents"
    /\ \E inspect \in Prompt(BOOLEAN),
          event_id \in Prompt((IF HasKey(npc_events, state.npc_id) THEN npc_events[state.npc_id] ELSE {})
                              \cup {Cancel}) :
        Resume(App_run_NPCEvents_1(state.npc_id, inspect, event_id))
    /\ UNCHANGED store_vars
    /\ UNCHANGED decode_vars

NextMenu ==
    \/ LoadAll
    \/ LoopCheck
    \/ RootStep
    \/ EventStep
    \/ NPCStep
    \/ NPCEventsStep

SpecMenu == Init /\ [][NextMenu]_vars

----------------------------------------------------------------------------
(* Properties *)

HasTyped(m, k, t) == k \in DOMAIN m /\ m[k].tag = t

\* every required field of an event record is there with its variant
WellFormedEvent(value) ==
    /\ value.tag = "Struct"
    /\ HasTyped(value.m, "id", "Str")
    /\ HasTyped(value.m, "sequence", "Str")
    /\ HasTyped(value.m, "sequenceCount", "Uint")
    /\ HasTyped(value.m, "strikeCount", "Uint")
    /\ HasTyped(value.m, "overrideDeck", "Uint")
    /\ HasTyped(value.m, "npc", "Struct")
    /\ HasTyped(value.m["npc"].m, "guid", "Str")

\* the digits of text at the 0-based positions first, first + 8, first + 16, ...
DigitsAt(text, first) ==
    LET positions == [i \in 1..Len(text) |-> i - 1]
        sampled == SelectSeq(positions,
                             LAMBDA p : p >= first /\ (p - first) % 8 = 0 /\ text[p + 1] \in DigitChars)
    IN  [i \in 1..Len(sampled) |-> DigitVal(text[sampled[i] + 1])]

\* C1: phase 1 fails whenever a decoded NPC pair repeats a guid or an NPC id
\* that is already recorded.
C1_DuplicateIsFatal == dup_seen => pc = "failed"

\* C2: an event whose npc_guid is no left value of the bijection makes the
\* load fail with an error naming the guid and the event id, and event_map
\* keeps no entry.
C2_UnknownGuidFails ==
    (last_in.kind = "event" /\ RawEvent_try_from(last_in.field).ok
        /\ RawEvent_try_from(last_in.field).val.npc_guid \notin Lefts(npc_guids))
    => /\ pc = "failed"
       /\ load_err = Some(UnknownGuidErr(last_in.field.m["npc"].m["guid"].s, last_in.field.m["id"].s))
       /\ DOMAIN event_map = {}

\* the offending event is not the first one and events before it were linked
C2_Witness ==
    /\ pc = "failed"
    /\ load_err.some
    /\ load_err.v.msg = "Unknown NPC Guid"
    /\ n_events >= 2
    /\ DOMAIN collected # {}
    /\ DOMAIN event_map = {}

\* C3 as stated: the sampled characters are those at the 0-based positions
\* 2, 10, 18, ...
C3_SamplesFromPosition2 == d_op = "sequence" => d_ret.val = DigitsAt(d_arg.s, 2)

\* C3, amended: the sampled characters are those at the 0-based positions
\* 1, 9, 17, ...; sequence_lengths is the list, in order, of the sampled
\* characters that are digits, the others are dropped without an error.
C3_SamplesFromPosition1 == d_op = "sequence" => d_ret.ok /\ d_ret.val = DigitsAt(d_arg.s, 1)

\* three characters are sampled, the first is no digit and is dropped
C3_Witness ==
    /\ d_op = "sequence"
    /\ Len(d_arg.s) >= 18
    /\ d_arg.s[2] = "x" /\ d_arg.s[10] = "3" /\ d_arg.s[18] = "3"
    /\ d_arg.s[3] = "3"
    /\ d_ret.val = <<3, 3>>

\* the number of digits among the characters the decoder samples
SampledDigitCount(text) == Cardinality({i \in 1..Len(text) : i % 8 = 2 /\ text[i] \in DigitChars})

\* C4: a well-formed event record with counts that fit 8 bits and no
\* override deck decodes iff the number of sampled digits equals
\* sequenceCount; the failure names the event id; every decoded event has
\* as many sequence lengths as its sequence_count.
C4_DecodesIffCountMatches ==
    d_op = "RawEvent" =>
        /\ (WellFormedEvent(d_arg) /\ d_arg.m["sequenceCount"].u <= 255
                /\ d_arg.m["strikeCount"].u <= 255 /\ d_arg.m["overrideDeck"].u # 1)
           => /\ d_ret.ok <=> (SampledDigitCount(d_arg.m["sequence"].s) = d_arg.m["sequenceCount"].u)
              /\ ~d_ret.ok => d_ret.err = SequenceParseErr(d_arg.m["id"].s)
        /\ d_ret.ok => Len(d_ret.val.sequence_lengths) = d_ret.val.sequence_count

\* two digits are sampled, two are announced, the record decodes
C4_Witness ==
    /\ d_op = "RawEvent"
    /\ WellFormedEvent(d_arg)
    /\ d_arg.m["overrideDeck"].u # 1
    /\ d_arg.m["sequenceCount"].u = 2
    /\ d_ret.ok
    /\ Len(d_ret.val.sequence_lengths) = 2

\* C5: a decoded event has a deck iff overrideDeck is 1, whether or not the
\* record holds a `deck`; with overrideDeck 1 a missing or non-struct `deck`
\* fails the decode.
C5_DeckIffOverride ==
    (d_op = "RawEvent" /\ d_arg.tag = "Struct" /\ HasTyped(d_arg.m, "overrideDeck", "Uint")) =>
        /\ d_ret.ok => (d_ret.val.deck.some <=> d_arg.m["overrideDeck"].u = 1)
        /\ (d_arg.m["overrideDeck"].u = 1 /\ ~HasTyped(d_arg.m, "deck", "Struct")) => ~d_ret.ok

\* the record holds a deck struct, overrideDeck is not 1, the event has no deck
C5_Witness ==
    /\ d_op = "RawEvent"
    /\ d_ret.ok
    /\ HasTyped(d_arg.m, "deck", "Struct")
    /\ d_arg.m["overrideDeck"].u # 1
    /\ d_ret.val.deck = None

\* C6: a strikeCount or sequenceCount above 255 fails the decode, and a
\* decoded event carries the source values unchanged.
C6_CheckedNarrowing ==
    (d_op = "RawEvent" /\ d_arg.tag = "Struct" /\ HasTyped(d_arg.m, "sequenceCount", "Uint")
        /\ HasTyped(d_arg.m, "strikeCount", "Uint")) =>
        /\ (d_arg.m["sequenceCount"].u > 255 \/ d_arg.m["strikeCount"].u > 255) => ~d_ret.ok
        /\ d_ret.ok => /\ d_ret.val.sequence_count = d_arg.m["sequenceCount"].u
                       /\ d_ret.val.strike_count = d_arg.m["strikeCount"].u

\* 256 sequences announced and 256 digits sampled: the narrowing is what fails
C6_Witness ==
    /\ d_op = "RawEvent"
    /\ WellFormedEvent(d_arg)
    /\ d_arg.m["sequenceCount"].u = 256
    /\ d_arg.m["strikeCount"].u = 0
    /\ ~d_ret.ok
    /\ d_ret.err = TryFromIntError

\* the bit value the claim gives each tag
TagBit(t) ==
    CASE t = "Circle" -> 1
      [] t = "Triangle" -> 2
      [] t = "Square" -> 4
      [] t = "Diamond" -> 8
      [] t = "Spiral" -> 16
      [] t = "Dog" -> 32

Members(c) == {c[i] : i \in 1..Len(c)}

\* the OR of distinct bit values is their sum
RECURSIVE BitsOf(_)
BitsOf(tags) ==
    IF tags = {} THEN 0
    ELSE LET t == CHOOSE x \in tags : TRUE IN TagBit(t) + BitsOf(tags \ {t})

\* C7: decoding any n as a Connector succeeds and the bits of the tags of
\* the result are those of n & 0x3F.
C7_ConnectorBits ==
    d_op = "Connector" =>
        /\ d_ret.ok
        /\ BitsOf(Members(d_ret.val)) = d_arg.u % 64
        /\ d_arg.u = 5 => Members(d_ret.val) = {"Circle", "Square"}
        /\ d_arg.u = 63 => Members(d_ret.val) = ConnectTypes
        /\ d_arg.u \in {0, 64} => Members(d_ret.val) = {}

\* 0x50: the bit outside 0x3F is ignored, 0x10 gives Spiral
C7_Witness ==
    /\ d_op = "Connector"
    /\ d_arg.u = 80
    /\ Members(d_ret.val) = {"Spiral"}

CanonicalOrder == <<"Circle", "Triangle", "Square", "Diamond", "Dog", "Spiral">>

\* C8: the members of a decoded Connector are iterated and rendered in the
\* declaration order of ConnectType, without duplicates.
C8_CanonicalOrder ==
    d_op = "Connector" =>
        /\ d_ret.val = SelectSeq(CanonicalOrder, LAMBDA t : t \in Members(d_ret.val))
        /\ Connector_fmt(d_ret.val)
             = SelectSeq(<<"C", "T", "S", "D", "P", "@">>,
                         LAMBDA g : \E t \in Members(d_ret.val) : ConnectType_fmt(t) = g)

\* 0x30: Spiral is inserted before Dog and iterated after it
C8_Witness ==
    /\ d_op = "Connector"
    /\ d_arg.u = 48
    /\ d_ret.val = <<"Dog", "Spiral">>

EffectOfCode == <<"Chain", "Inherit", "Duplicate", "Insert", "Collapse", "Redraw",
                  "ViewHand", "Choose", "Listen">>

\* C9: Effect decoding never fails; the codes 1..9 give the nine named
\* effects, 0 and every code from 10 on give None.
C9_EffectTotal ==
    d_op = "Effect" =>
        /\ d_ret.ok
        /\ d_arg.u \in 1..9 => d_ret.val = EffectOfCode[d_arg.u]
        /\ d_arg.u \notin 1..9 => d_ret.val = "None"

\* a code above 9 gives None
C9_Witness ==
    /\ d_op = "Effect"
    /\ d_arg.u >= 10
    /\ d_ret = Ok("None")

\* C10: field_get returns the payload exactly when the key is there with
\* the expected variant, and an error otherwise; no variant is read as
\* another one.
C10_FieldGetStrict ==
    d_op = "field_get" =>
        /\ d_ret.ok <=> HasTyped(d_arg.map, d_arg.key, d_arg.type)
        /\ d_ret.ok => d_ret.val = Payload(d_arg.map[d_arg.key])
        /\ (~d_ret.ok /\ ~HasKey(d_arg.map, d_arg.key))
             => d_ret.err = MissingKeyErr(d_arg.event, d_arg.key)
        /\ (~d_ret.ok /\ HasKey(d_arg.map, d_arg.key))
             => d_ret.err = WrongTypeErr(d_arg.event, d_arg.key, d_arg.type)

\* an Int is stored where a Uint is expected: the accessor fails
C10_Witness ==
    /\ d_op = "field_get"
    /\ HasKey(d_arg.map, d_arg.key)
    /\ d_arg.map[d_arg.key] = IntF(7)
    /\ d_arg.type = "Uint"
    /\ ~d_ret.ok

\* the errors of the schema class: a required field is absent or mistyped
SchemaMsgs ==
    {"Field didn't contain key", "Field entry is not of type", "No field in card",
     "No anchor field for Deck", "Field is not a"}

\* C11: every schema error raised while decoding an event after its id was
\* read names the offending field and carries the event id as its prefix.
C11_SchemaErrorsNameFieldAndEvent ==
    (d_op = "RawEvent" /\ d_arg.tag = "Struct" /\ HasTyped(d_arg.m, "id", "Str")
        /\ ~d_ret.ok /\ d_ret.err.msg \in SchemaMsgs)
    => /\ "key" \in DOMAIN d_ret.err
       /\ "event" \in DOMAIN d_ret.err
       /\ d_ret.err.event = Some(d_arg.m["id"].s)

\* C12: a failed load hands no App to the caller, whatever was inserted
\* before the failure; a returned App holds the four maps as the two phases
\* left them, with every collected event in event_map and in the reverse
\* index of its NPC.
C12_AllOrNothing ==
    /\ pc = "failed" => app = None /\ load_err.some
    /\ pc \in {"phase1", "phase2"} => app = None
    /\ app.some =>
        /\ pc = "done" /\ ~load_err.some
        /\ app.v = App_out(collected)
        /\ event_map = collected
        /\ \A id \in DOMAIN app.v.event_map :
            /\ app.v.event_map[id].npc_id \in DOMAIN app.v.npc_events
            /\ id \in app.v.npc_events[app.v.event_map[id].npc_id]

\* the second event fails after the first was inserted into npc_events
C12_Witness ==
    /\ pc = "failed"
    /\ last_in.kind = "event"
    /\ \E n \in DOMAIN npc_events : npc_events[n] # {}
    /\ app = None

\* the step links a decoded event whose guid is a left value of the bijection
C13_LinksKnownGuid ==
    /\ pc = "phase2"
    /\ n_events' = n_events + 1
    /\ RawEvent_try_from(last_in'.field).ok
    /\ RawEvent_try_from(last_in'.field).val.npc_guid \in Lefts(npc_guids)

C13_Linked(raw) ==
    /\ pc' = "phase2"
    /\ HasKey(collected', raw.id)
    /\ <<raw.npc_guid, collected'[raw.id].npc_id>> \in npc_guids
    /\ collected'[raw.id].event = raw
    /\ raw.id \in npc_events'[collected'[raw.id].npc_id]
    /\ DOMAIN npc_events' = DOMAIN npc_events
    /\ \A n \in DOMAIN npc_events :
        n # collected'[raw.id].npc_id => npc_events'[n] = npc_events[n]

\* C13: processing a decoded event whose npc_guid is a left value of the
\* bijection stores the Event with the NPC id paired with that guid, puts the
\* event id into the set of that NPC and leaves the sets of all other NPCs
\* as they were.
C13_LinkedEventCarriesNpc ==
    [][C13_LinksKnownGuid => C13_Linked(RawEvent_try_from(last_in'.field).val)]_vars

\* two NPCs are known, an event was linked to n2 and the set of n1 is empty
C13_Witness ==
    /\ pc = "phase2"
    /\ last_in.kind = "event"
    /\ npc_guids = {<<G1, N1>>, <<G2, N2>>}
    /\ npc_events[N1] = {}
    /\ npc_events[N2] = {E1}
    /\ HasKey(collected, E1) /\ collected[E1].npc_id = N2

\* the lookups of the NPC and NPCEvents menu states for the NPC id chosen
\* from the right values: none takes its error branch
MenuLookupsSucceed(id) ==
    /\ get_by_right(npc_guids, id).some
    /\ HasKey(npc_map, get_by_right(npc_guids, id).v)
    /\ HasKey(npc_events, npc_map[get_by_right(npc_guids, id).v].id)

\* C14: every pair (guid, id) of npc_guids has npc_map[guid] with NPC id id
\* and an entry npc_events[id], the empty set as long as phase 1 lasts and
\* when phase 2 starts; hence the lookups of the menu loop succeed for
\* every right value.
C14_PairsHaveEntries ==
    /\ \A p \in npc_guids :
        /\ HasKey(npc_map, p[1])
        /\ npc_map[p[1]].id = p[2]
        /\ HasKey(npc_events, p[2])
        /\ (pc = "phase1" \/ (pc = "phase2" /\ n_events = 0)) => npc_events[p[2]] = {}
    /\ \A id \in Rights(npc_guids) : MenuLookupsSucceed(id)

\* the load succeeded after a pair of phase 1 was overwritten by a later one
C14_Witness ==
    /\ pc = "done"
    /\ dup_seen
    /\ Cardinality(npc_guids) = 2
    /\ DOMAIN event_map # {}

\* C15: events are linked in phase 2 only, phase 2 scans no pair and
\* changes neither npc_guids nor npc_map, and once a phase returned an
\* error nothing runs any more: phase 2 never follows a failed phase 1.
C15_PhasesInOrder ==
    [][/\ (n_events' # n_events \/ collected' # collected \/ event_map' # event_map)
            => pc = "phase2"
       /\ (n_pairs' # n_pairs \/ npc_guids' # npc_guids \/ npc_map' # npc_map)
            => pc = "phase1"
       /\ pc' = "phase2" => ~load_err.some /\ ~load_err'.some
       /\ load_err.some => pc = "failed" /\ pc' = "failed"]_vars

\* phase 1 failed on a later pair, after an NPC was recorded; no event was read
C15_Witness ==
    /\ pc = "failed"
    /\ last_in.kind = "pair"
    /\ n_pairs >= 2
    /\ npc_guids # {}
    /\ n_events = 0
    /\ collected = EmptyMap

\* every field NPC try_from reads is there with its variant and the six
\* deck slots decode
WellFormedNPC(mono) ==
    /\ HasTyped(mono, "id", "Str")
    /\ HasTyped(mono, "handSize", "Uint")
    /\ HasTyped(mono, "prefersDoubles", "Uint")
    /\ HasTyped(mono, "mad", "Uint")
    /\ \A i \in 1..6 : HasTyped(mono, DeckKeys[i], "Struct") /\ Deck_try_from(mono[DeckKeys[i]].m).ok

\* the step scans a pair whose sidecar holds a guid and whose asset holds a
\* MonoBehaviour struct
C16_ScansAsset ==
    /\ pc = "phase1"
    /\ n_pairs' = n_pairs + 1
    /\ last_in'.meta.tag = "Struct"
    /\ HasTyped(last_in'.meta.m, "guid", "Str")
    /\ last_in'.asset.tag = "Struct"
    /\ HasTyped(last_in'.asset.m, "MonoBehaviour", "Struct")

C16_SkipOrDecode(asset, mono) ==
    /\ ~HasKey(mono, "deck0") =>
        /\ NPC_load_asset(asset) = Ok(None)
        /\ pc' = "phase1"
        /\ UNCHANGED <<npc_guids, npc_map, npc_events, load_err>>
    /\ (HasKey(mono, "deck0") /\ ~WellFormedNPC(mono)) =>
        /\ ~NPC_load_asset(asset).ok
        /\ pc' = "failed"
        /\ load_err' = Some(NPC_load_asset(asset).err)
        /\ UNCHANGED <<npc_guids, npc_map, npc_events>>
    /\ (HasKey(mono, "deck0") /\ WellFormedNPC(mono)) =>
        /\ NPC_load_asset(asset).ok /\ NPC_load_asset(asset).val.some
        /\ pc' = "phase1"
        /\ <<last_in'.meta.m["guid"].s, mono["id"].s>> \in npc_guids'

\* C16: an asset whose MonoBehaviour has no `deck0` is skipped: load_asset
\* returns no NPC and no error, npc_guids, npc_map and npc_events stay as
\* they are and phase 1 goes on; an asset with `deck0` is decoded in full
\* and a missing or mistyped required field fails the load.
C16_NonNpcSkipped ==
    [][C16_ScansAsset
        => C16_SkipOrDecode(last_in'.asset, last_in'.asset.m["MonoBehaviour"].m)]_vars

\* an asset without `deck0` was skipped after an NPC was recorded
C16_Witness ==
    /\ pc = "phase1"
    /\ last_in.kind = "pair"
    /\ last_in.asset = Asset("name" :> StrF(E1))
    /\ HasTyped(last_in.meta.m, "guid", "Str")
    /\ npc_guids # {}
    /\ load_err = None

\* the indices of the list elements that do not decode as a Card
BadCards(list) == {i \in 1..Len(list) : ~Card_try_from(list[i]).ok}

FirstBadCard(list) == CHOOSE i \in BadCards(list) : \A j \in BadCards(list) : i <= j

\* C17: a deck decodes exactly when `cards` is a list of elements that all
\* decode as a Card and `anchor` is there and decodes as a Card; the decoded
\* cards are those of the list, in order and as many; an element that does
\* not decode fails the decode with the error of the first such element.
C17_DeckAllOrNothing ==
    d_op = "Deck" =>
        /\ d_ret.ok <=> /\ HasTyped(d_arg.m, "cards", "List")
                        /\ BadCards(d_arg.m["cards"].l) = {}
                        /\ HasKey(d_arg.m, "anchor")
                        /\ Card_try_from(d_arg.m["anchor"]).ok
        /\ d_ret.ok =>
            /\ Len(d_ret.val.cards) = Len(d_arg.m["cards"].l)
            /\ \A i \in 1..Len(d_ret.val.cards) :
                d_ret.val.cards[i] = Card_try_from(d_arg.m["cards"].l[i]).val
            /\ d_ret.val.anchor = Card_try_from(d_arg.m["anchor"]).val
        /\ (HasTyped(d_arg.m, "cards", "List") /\ BadCards(d_arg.m["cards"].l) # {}) =>
            d_ret.err = Card_try_from(d_arg.m["cards"].l[FirstBadCard(d_arg.m["cards"].l)]).err
        /\ (HasTyped(d_arg.m, "cards", "List") /\ d_arg.m["cards"].l = <<>>
                /\ HasKey(d_arg.m, "anchor") /\ Card_try_from(d_arg.m["anchor"]).ok)
            => d_ret.ok /\ d_ret.val.cards = <<>>

\* a card, a struct with `input` only, no struct: the second element fails the decode
C17_Witness ==
    /\ d_op = "Deck"
    /\ HasTyped(d_arg.m, "cards", "List")
    /\ d_arg.m["cards"].l = <<CardStruct(5, 48, 3), StructF("input" :> UintF(1)), UintF(9)>>
    /\ HasKey(d_arg.m, "anchor")
    /\ d_ret = Err(NoCardFieldErr("output"))

\* the positions, in the order input, output, effect, of the fields that
\* are missing or are no Uint
BadCardFields(m) == {i \in 1..3 : ~HasTyped(m, CardKeys[i], "Uint")}

FirstBadCardField(m) == CHOOSE i \in BadCardFields(m) : \A j \in BadCardFields(m) : i <= j

\* the error of the field at position i of the card m
CardFieldErr(m, i) ==
    IF HasKey(m, CardKeys[i]) THEN NotVariantErr("Uint") ELSE NoCardFieldErr(CardKeys[i])

\* C18: a card struct decodes exactly when `input`, `output` and `effect`
\* are all there as Uint; otherwise the error is that of the first of the
\* three, in this order, that is missing or mistyped, and it names the
\* field when the field is missing.
C18_CardFirstError ==
    (d_op = "Card" /\ d_arg.tag = "Struct") =>
        /\ d_ret.ok <=> BadCardFields(d_arg.m) = {}
        /\ d_ret.ok =>
            d_ret.val = [input |-> Connector_try_from(d_arg.m["input"]).val,
                         output |-> Connector_try_from(d_arg.m["output"]).val,
                         effect |-> Effect_try_from(d_arg.m["effect"]).val]
        /\ ~d_ret.ok => d_ret.err = CardFieldErr(d_arg.m, FirstBadCardField(d_arg.m))
        /\ (~d_ret.ok /\ ~HasKey(d_arg.m, CardKeys[FirstBadCardField(d_arg.m)]))
             => d_ret.err.key = CardKeys[FirstBadCardField(d_arg.m)]

\* `input` is an Int and `output` is missing: the error is that of `input`
C18_Witness ==
    /\ d_op = "Card"
    /\ d_arg.tag = "Struct"
    /\ HasKey(d_arg.m, "input") /\ d_arg.m["input"] = IntF(7)
    /\ ~HasKey(d_arg.m, "output")
    /\ d_ret = Err(NotVariantErr("Uint"))

\* the Event the example of C19 yields for the NPC id npc_id and the guid guid
C19_Event(guid, npc_id) ==
    [npc_id |-> npc_id,
     event |-> [id |-> E1, npc_guid |-> guid, sequence_count |-> 2, strike_count |-> 1,
                sequence_lengths |-> <<3, 2>>, deck |-> None]]

\* one pair was scanned and gave the NPC pair p, one event record was read:
\* id "e1", the guid of p, sequenceCount 2, overrideDeck 0, the digits 3 and 2
\* at the sampled positions
C19_Example(p) ==
    /\ n_pairs = 1
    /\ npc_guids = {p}
    /\ n_events = 1
    /\ last_in = [kind |-> "event", field |-> EventStruct(E1, p[1], SeqText32, 2, 1, 0, NullF)]

\* C19: one NPC asset with the sidecar guid G and the single event "e1" of
\* that guid load without an error and give exactly one Event, with
\* sequence_lengths <<3, 2>>, no deck and the id of the NPC, and the set
\* {"e1"} for that NPC.
C19_EndToEnd ==
    \A p \in npc_guids : C19_Example(p) =>
        /\ pc \in {"phase2", "done"}
        /\ load_err = None
        /\ collected = (E1 :> C19_Event(p[1], p[2]))
        /\ npc_events = (p[2] :> {E1})
        /\ npc_map[p[1]].id = p[2]
        /\ pc = "done" => /\ event_map = (E1 :> C19_Event(p[1], p[2]))
                          /\ app = Some(App_out(event_map))

\* the load of the example is over
C19_Witness ==
    /\ pc = "done"
    /\ C19_Example(<<G1, N1>>)
    /\ app.some
    /\ app.v.event_map = (E1 :> C19_Event(G1, N1))
    /\ app.v.npc_events = (N1 :> {E1})

\* a is before b in the lexicographic order of the bytes
LexLess(a, b) ==
    \E i \in 1..(Len(b)) :
        /\ \A j \in 1..(i - 1) : j <= Len(a) /\ a[j] = b[j]
        /\ (i > Len(a) \/ CharCode(a[i]) < CharCode(b[i]))

LexOrder(a, b) == IF a = b THEN "Equal" ELSE IF LexLess(a, b) THEN "Less" ELSE "Greater"

\* ids lists the members of S, each once, in ascending lexicographic order
AscendingListOf(ids, S) ==
    /\ {ids[i] : i \in 1..Len(ids)} = S
    /\ \A i \in 1..(Len(ids) - 1) : LexLess(ids[i], ids[i + 1])

\* the decoded events at hand: those collected and the one read last
EventsAtHand ==
    {collected[id].event : id \in DOMAIN collected}
    \cup (IF last_in.kind = "event" /\ RawEvent_try_from(last_in.field).ok
          THEN {RawEvent_try_from(last_in.field).val} ELSE {})

\* C20: two events compare as their ids do, lexicographically, whatever
\* their other fields; the keys of the event store and the members of each
\* reverse-index set are iterated in ascending id order.
C20_OrderedById ==
    /\ \A a \in EventsAtHand, b \in EventsAtHand : RawEvent_cmp(a, b) = LexOrder(a.id, b.id)
    /\ AscendingListOf(BTreeMap_keys(collected), DOMAIN collected)
    /\ AscendingListOf(BTreeMap_keys(event_map), DOMAIN event_map)
    /\ \A n \in DOMAIN npc_events : AscendingListOf(BTreeSet_iter(npc_events[n]), npc_events[n])

\* the source lists "e2", "e10", "e1"; the store iterates "e1", "e10", "e2"
C20_Witness ==
    /\ pc = "done"
    /\ last_in.kind = "event" /\ last_in.field.m["id"].s = E1
    /\ BTreeMap_keys(event_map) = <<E1, E10, E2>>
    /\ \E n \in DOMAIN npc_events : BTreeSet_iter(npc_events[n]) = <<E1, E10, E2>>

KeySet(map) == DOMAIN map

\* C21: after any sequence of phase-1 insertions the keys of npc_map are the
\* left values of npc_guids and the keys of npc_events are its right values.
C21_MapsSynchronized ==
    /\ KeySet(npc_map) = Lefts(npc_guids)
    /\ KeySet(npc_events) = Rights(npc_guids)

\* C22: after a successful load an event id x is in npc_events[n] exactly
\* when event_map holds x with the NPC id n.
C22_ReverseIndexAgrees ==
    pc = "done" =>
        \A n \in DOMAIN npc_events : \A x \in npc_events[n] \cup DOMAIN event_map :
            x \in npc_events[n] <=> (HasKey(event_map, x) /\ event_map[x].npc_id = n)

\* C23: NPC decoding does not fail on a handSize or mad above 255; the
\* decoded hand_size and mad_threshold are the source values modulo 256.
C23_NpcNarrowingWraps ==
    d_op = "NPC" =>
        /\ d_ret.ok
        /\ d_ret.val.hand_size = d_arg.m["handSize"].u % 256
        /\ d_ret.val.mad_threshold = d_arg.m["mad"].u % 256
        /\ d_ret.val.hand_size \in 0..255 /\ d_ret.val.mad_threshold \in 0..255

\* handSize 300 decodes as 44, mad 256 as 0
C23_Witness ==
    /\ d_op = "NPC"
    /\ d_arg.m["handSize"].u = 300
    /\ d_arg.m["mad"].u = 256
    /\ d_ret.ok
    /\ d_ret.val.hand_size = 44
    /\ d_ret.val.mad_threshold = 0

\* the transitions of the menu loop the claim lists
MenuTransition(from, to) ==
    CASE from.tag = "Root" -> to.tag \in {"Event", "NPC", "Quit"}
      [] from.tag = "Event" -> to = [tag |-> "Root"]
      [] from.tag = "NPC" -> to = [tag |-> "Root"] \/ to.tag = "NPCEvents"
      [] from.tag = "NPCEvents" -> to = [tag |-> "NPC", id |-> from.npc_id]
      [] OTHER -> FALSE

\* C24: the state of the menu loop changes along the listed transitions
\* only; the arm Event always ends in Root, the arm NPCEvents ends in NPC
\* with the same NPC id unless a prompt fails, Quit is entered from Root
\* only, the loop condition ends the loop in the state Quit, no arm runs in
\* that state and the unreachable! arm is never executed.
C24_MenuTransitions ==
    [][/\ state' # state => MenuTransition(state, state')
       /\ (run_pc = "body" /\ state.tag = "Event")
            => state' = [tag |-> "Root"] /\ run_pc' = "check"
       /\ (run_pc = "body" /\ state.tag = "NPCEvents" /\ run_pc' = "check")
            => state' = [tag |-> "NPC", id |-> state.npc_id]
       /\ (state'.tag = "Quit" /\ state.tag # "Quit") => state.tag = "Root"
       /\ state.tag = "Quit" => run_pc \in {"check", "ok"} /\ run_pc' = "ok" /\ state' = state
       /\ run_pc' = "ok" => state'.tag = "Quit"
       /\ run_pc' # "unreachable"]_vars

\* the loop ended in Quit on a store with events and NPCs
C24_Witness ==
    /\ run_pc = "ok"
    /\ state = [tag |-> "Quit"]
    /\ DOMAIN event_map # {}
    /\ npc_guids # {}

====
